---- MODULE Spec2Model ----
(***************************************************************************)
(* julearn: the typed-column transformer wrapper (DataFrameTransformer)    *)
(* and the input preparation of prepare.py.                                *)
(*                                                                         *)
(* Strings are sequences of tokens: the column name "c__:type:__confound"  *)
(* is <<"c", "__", ":type:", "__", "confound">>.  The separator keeps its  *)
(* own structure ("__" ":type:" "__"), so that str.split meets the same    *)
(* overlapping occurrences as on the characters.  The tokens used form a   *)
(* prefix code: two different sequences are two different strings.         *)
(*                                                                         *)
(* A table (pandas.DataFrame) is the sequence of its columns, a column is  *)
(* [name, data]; data names the values the column holds.                   *)
(***************************************************************************)
EXTENDS Integers, Sequences, FiniteSets, TLC

VARIABLES
    df,                 \* the table the pipeline holds (fit-time table)
    self,               \* the wrapper's constructor parameters
    transform_column_,  \* fitted state: the columns resolved at fit
    pc,                 \* where the wrapper is: constructed, fitted, ...
    call,               \* the last fit/transform call: its input, slices and result
    n_steps,            \* wrappers the pipeline has run so far
    column,             \* codec: the column name handed to _get_column_type
    decoded,            \* codec: the tag it returned
    args,               \* prepare_input_data: its arguments
    ret                 \* prepare_input_data: what it returned or raised

vars == <<df, self, transform_column_, pc, call, n_steps,
          column, decoded, args, ret>>

wrapperVars == <<df, self, transform_column_, pc, call, n_steps>>
codecVars == <<column, decoded>>
prepareVars == <<args, ret>>

----------------------------------------------------------------------------
(* Bounds of the model *)

\* columns of an initial table
MaxCols == 2
\* entries of a list selector
MaxSel == 2
\* columns an array-returning transformer emits
MaxOut == 2
\* wrappers chained in one pipeline
MaxSteps == 2
\* tokens of a column name handed to the codec
MaxLen == 5
\* feature / confound columns of an input array
MaxFeatures == 3

----------------------------------------------------------------------------
(* Strings *)

Str(w) == <<w>>

column_type_sep == <<"__", ":type:", "__">>

\* str.find: the first index at which sub occurs in s, 0 when it does not
find(s, sub) ==
    LET hits == {j \in 1..(Len(s) - Len(sub) + 1) :
                    SubSeq(s, j, j + Len(sub) - 1) = sub}
    IN  IF hits = {} THEN 0 ELSE CHOOSE j \in hits : \A k \in hits : j <= k

\* str.split(sep): the parts between the non-overlapping occurrences of sep,
\* scanned from the left
RECURSIVE split(_, _)
split(s, sep) ==
    LET j == find(s, sep)
    IN  IF j = 0 THEN <<s>>
        ELSE <<SubSeq(s, 1, j - 1)>> \o split(SubSeq(s, j + Len(sep), Len(s)), sep)

\* f'{i}' for a column position
Digit(i) == Str(ToString(i))

----------------------------------------------------------------------------
(* DataFrameTransformer: codec and selector *)

column_types == {Str("confound"), Str("all"), Str("all_features"),
                 Str("continuous"), Str("categorical")}

\* a mutant: the tag is the last part, whatever the number of parts
get_column_type_last(col) ==
    LET column_type == split(col, column_type_sep)
    IN  IF Len(column_type) = 1 THEN Str("continuous")
        ELSE column_type[Len(column_type)]

_get_column_type(col) ==
    LET column_type == split(col, column_type_sep)
    IN  IF Len(column_type) # 2 THEN Str("continuous") ELSE column_type[2]

_get_columns_of_type(columns, column_type) ==
    IF column_type = Str("all") THEN columns
    ELSE IF column_type = Str("all_features")
    THEN SelectSeq(columns, LAMBDA c : _get_column_type(c) # Str("confound"))
    ELSE SelectSeq(columns, LAMBDA c : _get_column_type(c) = column_type)

RECURSIVE _get_columns_of_types(_, _)
_get_columns_of_types(columns, types) ==
    IF types = <<>> THEN <<>>
    ELSE _get_columns_of_type(columns, Head(types))
         \o _get_columns_of_types(columns, Tail(types))

----------------------------------------------------------------------------
(* pandas *)

\* X.columns
Columns(X) == [i \in 1..Len(X) |-> X[i].name]

Range(s) == {s[i] : i \in 1..Len(s)}

\* the columns of X labelled `label`, in table order
Labelled(X, label) == SelectSeq(X, LAMBDA c : c.name = label)

\* X.loc[:, labels] for a list of labels, every one of them in X: per label,
\* in list order, the columns of X that carry it
RECURSIVE loc(_, _)
loc(X, labels) ==
    IF labels = <<>> THEN <<>>
    ELSE Labelled(X, Head(labels)) \o loc(X, Tail(labels))

\* X.drop(columns=labels)
drop(X, labels) == SelectSeq(X, LAMBDA c : c.name \notin Range(labels))

\* frame.columns = names
rename(X, names) == [i \in 1..Len(X) |-> [name |-> names[i], data |-> X[i].data]]

\* frame.reindex(columns=names) on a frame whose labels are unique
reindex(X, names) ==
    [i \in 1..Len(names) |-> CHOOSE c \in Range(X) : c.name = names[i]]

HasDuplicates(names) == Cardinality(Range(names)) # Len(names)

----------------------------------------------------------------------------
(* DataFrameTransformer: fit and transform *)

\* self.transform_column is a str or a list of str
IsList(sel) == sel.type = "list"

\* the outcome of a call that raised
Raised(error) == [error |-> error, assigned |-> FALSE, value |-> <<>>]

\* what the call leaves in self.transform_column_ and whether it raised:
\* assigned tells whether the attribute was written before the raise
_set_columns_to_transform(w, X) ==
    LET sel == w.transform_column
        all_columns == Columns(X)
        picked == Labelled(X, sel.value)
        got ==
            IF ~IsList(sel)
            THEN IF sel.value \in column_types
                 THEN [error |-> "", assigned |-> TRUE,
                       value |-> _get_columns_of_type(all_columns, sel.value)]
                 \* X.loc[:, name] of a missing label
                 ELSE IF picked = <<>> THEN Raised("KeyError")
                 \* X.loc[:, name] of a unique label is a Series: no .columns
                 ELSE IF Len(picked) = 1 THEN Raised("AttributeError")
                 ELSE [error |-> "", assigned |-> TRUE, value |-> Columns(picked)]
            ELSE IF Range(sel.value) \subseteq column_types
                 THEN [error |-> "", assigned |-> TRUE,
                       value |-> _get_columns_of_types(all_columns, sel.value)]
                 ELSE IF ~(Range(sel.value) \subseteq Range(all_columns))
                 THEN Raised("KeyError")
                 ELSE [error |-> "", assigned |-> TRUE,
                       value |-> Columns(loc(X, sel.value))]
    IN  IF got.error = "" /\ got.value = <<>>
        THEN [got EXCEPT !.error = "EmptySelection"]
        ELSE got

\* the frame pd.DataFrame(transformer.transform(X_transform), index=...) with
\* its columns cast to str: an array gives the labels "0", "1", ..., a frame
\* keeps the labels it comes with (here those of the slice it was given)
Frame(X_transform, out) ==
    [i \in 1..out.n |->
        [name |-> IF out.frame THEN X_transform[i].name ELSE Digit(i - 1),
         data |-> "transformed"]]

\* columns[mask]
Masked(names, mask) ==
    LET keep == {i \in 1..Len(names) : mask[i]}
        RECURSIVE Pick(_)
        Pick(i) == IF i > Len(names) THEN <<>>
                   ELSE (IF i \in keep THEN <<names[i]>> ELSE <<>>) \o Pick(i + 1)
    IN  Pick(1)

\* f'{transformer_name}_component:{n_column}{sep}{column_type}'
Component(transformer_name, n_column, column_type) ==
    <<transformer_name, "_component:", ToString(n_column)>>
        \o column_type_sep \o column_type

Failed(error, X_transform, X_rest) ==
    [error |-> error, X_transform |-> X_transform, X_rest |-> X_rest,
     X_transformed |-> <<>>, df_out |-> <<>>]

Returned(X_transform, X_rest, X_transformed, df_out) ==
    [error |-> "", X_transform |-> X_transform, X_rest |-> X_rest,
     X_transformed |-> X_transformed, df_out |-> df_out]

\* the guard of unknown_same_type
RaisesHeterogeneous(sel) ==
    \/ IsList(sel) /\ Len(sel.value) > 1
    \/ ~IsList(sel) /\ sel.value \in {Str("all"), Str("all_features")}

\* a mutant: the columns are resolved again, against the table in hand
slice_resolved_again(w, cols, X) == loc(X, _set_columns_to_transform(w, X).value)

\* X.loc[:, self.transform_column_]
slice(w, cols, X) == loc(X, cols)

\* a mutant: the reassembled table is not put back in the input's order
returned_same_unordered(X, X_transform, X_rest, X_transformed) ==
    IF Len(X_transformed) # Len(X_transform)
    THEN Failed("LengthMismatch", X_transform, X_rest)
    ELSE LET named == rename(X_transformed, Columns(X_transform))
         IN  Returned(X_transform, X_rest, named, named \o X_rest)

\* returned_features == 'same'.  reindex returns the frame as it is when its
\* labels already equal the requested ones, and refuses a frame with
\* duplicate labels otherwise
returned_same(X, X_transform, X_rest, X_transformed) ==
    IF Len(X_transformed) # Len(X_transform)
    THEN Failed("LengthMismatch", X_transform, X_rest)
    ELSE LET named == rename(X_transformed, Columns(X_transform))
             both == named \o X_rest
         IN  IF Columns(both) = Columns(X)
             THEN Returned(X_transform, X_rest, named, both)
             ELSE IF HasDuplicates(Columns(both))
             THEN Failed("DuplicateLabels", X_transform, X_rest)
             ELSE Returned(X_transform, X_rest, named, reindex(both, Columns(X)))

\* a mutant: the mask is not read, the first names of the slice are taken
returned_subset_first(w, X_transform, X_rest, X_transformed, support) ==
    IF ~w.transformer.get_support
    THEN Failed("UnsupportedPolicy", X_transform, X_rest)
    ELSE IF Len(X_transformed) > Len(X_transform)
    THEN Failed("LengthMismatch", X_transform, X_rest)
    ELSE LET names == SubSeq(Columns(X_transform), 1, Len(X_transformed))
             named == rename(X_transformed, names)
         IN  Returned(X_transform, X_rest, named, named \o X_rest)

\* returned_features == 'subset'; support is what get_support() returns
returned_subset(w, X_transform, X_rest, X_transformed, support) ==
    IF ~w.transformer.get_support
    THEN Failed("UnsupportedPolicy", X_transform, X_rest)
    ELSE LET names == Masked(Columns(X_transform), support)
         IN  IF Len(names) # Len(X_transformed)
             THEN Failed("LengthMismatch", X_transform, X_rest)
             ELSE LET named == rename(X_transformed, names)
                  IN  Returned(X_transform, X_rest, named, named \o X_rest)

\* returned_features == 'unknown'
returned_unknown(w, X_transform, X_rest, X_transformed) ==
    LET names == [i \in 1..Len(X_transformed) |->
                    Component(w.transformer.name, i - 1, Str("continuous"))]
        named == rename(X_transformed, names)
    IN  Returned(X_transform, X_rest, named, named \o X_rest)

\* returned_features == 'unknown_same_type': the tag is read from the labels
\* of the transformed frame
returned_unknown_same_type(w, X_transform, X_rest, X_transformed) ==
    IF RaisesHeterogeneous(w.transform_column)
    THEN Failed("HeterogeneousTypePolicy", X_transform, X_rest)
    ELSE LET names == [i \in 1..Len(X_transformed) |->
                         Component(w.transformer.name, i - 1,
                                   _get_column_type(X_transformed[i].name))]
             named == rename(X_transformed, names)
         IN  Returned(X_transform, X_rest, named, named \o X_rest)

\* returned_features == 'from_transformer'
returned_from_transformer(X_transform, X_rest, X_transformed) ==
    Returned(X_transform, X_rest, X_transformed, X_rest \o X_transformed)

\* transform(X) of wrapper w with fitted columns cols, when the wrapped
\* transformer's transform returns `out` and its get_support() out.support
\* (a mask over the columns it was fitted on, as many as the slice has)
transform(w, cols, X, out) ==
    IF ~(Range(cols) \subseteq Range(Columns(X)))
    THEN Failed("KeyError", <<>>, <<>>)
    ELSE
    LET X_transform == slice(w, cols, X)
        X_rest == drop(X, cols)
        X_transformed == Frame(X_transform, out)
        policy == w.returned_features
    IN  IF policy = "same"
        THEN returned_same(X, X_transform, X_rest, X_transformed)
        ELSE IF policy = "subset"
        THEN returned_subset(w, X_transform, X_rest, X_transformed, out.support)
        ELSE IF policy = "unknown"
        THEN returned_unknown(w, X_transform, X_rest, X_transformed)
        ELSE IF policy = "unknown_same_type"
        THEN returned_unknown_same_type(w, X_transform, X_rest, X_transformed)
        ELSE IF policy = "from_transformer"
        THEN returned_from_transformer(X_transform, X_rest, X_transformed)
        ELSE Failed("UnsupportedPolicy", X_transform, X_rest)

----------------------------------------------------------------------------
(* The wrapper's inputs *)

Tagged(base, tag) == Str(base) \o column_type_sep \o Str(tag)

Col(name) == [name |-> name, data |-> name[1]]

\* the columns an initial table is made of, in table order
BaseColumns == <<Col(Str("a")), Col(Tagged("b", "categorical")),
                 Col(Tagged("c", "confound")), Col(Tagged("d", "confound"))>>

\* the columns of s at the positions in keep, in the order of s
RECURSIVE Restrict(_, _)
Restrict(s, keep) ==
    IF s = <<>> THEN <<>>
    ELSE Restrict(SubSeq(s, 1, Len(s) - 1), keep)
         \o (IF Len(s) \in keep THEN <<s[Len(s)]>> ELSE <<>>)

InitialTables ==
    {Restrict(BaseColumns, keep) : keep \in
        {k \in SUBSET (1..Len(BaseColumns)) : Cardinality(k) \in 1..MaxCols}}

\* the columns a later table may have on top of those of the fit-time table
ExtraFront == Col(Str("e"))
ExtraBack == Col(Tagged("f", "confound"))

\* the tables a fitted wrapper is asked to transform: the fit-time table, a
\* table with more columns, a table that lost its first column
TransformTables(A) ==
    {A, <<ExtraFront>> \o A \o <<ExtraBack>>} \cup
    (IF Len(A) > 1 THEN {Tail(A)} ELSE {})

SelectorEntries == column_types \cup {Str("a"), Tagged("c", "confound")}

SeqsUpTo(S, n) == UNION {[1..k -> S] : k \in 0..n}

Selectors ==
    {[type |-> "str", value |-> e] : e \in SelectorEntries} \cup
    {[type |-> "list", value |-> l] : l \in SeqsUpTo(SelectorEntries, MaxSel)}

Transformers == {[name |-> "pca", get_support |-> FALSE],
                 [name |-> "selectkbest", get_support |-> TRUE]}

Policies == {"same", "subset", "unknown", "unknown_same_type",
             "from_transformer", "other"}

Wrappers == [transformer : Transformers, transform_column : Selectors,
             returned_features : Policies]

\* what get_support() may return when transform asks for it (policy subset,
\* a transformer that has it): any mask over the n columns of the slice
Masks(w, n) ==
    IF w.transformer.get_support /\ w.returned_features = "subset"
    THEN [1..n -> BOOLEAN] ELSE {<<>>}

\* what the wrapped transformer may answer for a slice of n columns: its
\* transform returns a frame with the slice's labels or an array of some
\* width
Outputs(w, n) ==
    {[frame |-> f, n |-> k, support |-> m] :
        f \in BOOLEAN, k \in (1..MaxOut) \cup {n}, m \in Masks(w, n)}
    \ {o \in [frame : {TRUE}, n : 1..MaxOut, support : Masks(w, n)] : o.n # n}

NoAnswer == [frame |-> FALSE, n |-> 0, support |-> <<>>]

\* a call: the operation, the table it was given, what the wrapped
\* transformer answered, and the outcome
NoCall == [op |-> "none", X |-> <<>>, answer |-> NoAnswer,
           out |-> Failed("", <<>>, <<>>)]

----------------------------------------------------------------------------
(* The wrapper: one instance, fitted on the table df and then asked to      *)
(* transform a table.  transform writes no attribute of the wrapper, so a   *)
(* second transform meets the state the first one met.                      *)

Idle ==
    /\ column = <<>> /\ decoded = <<>>
    /\ args = <<>> /\ ret = <<>>

Init ==
    /\ df \in InitialTables
    /\ self \in Wrappers
    /\ transform_column_ = <<>>
    /\ pc = "constructed"
    /\ call = NoCall
    /\ n_steps = 0
    /\ Idle

\* fit(X): resolve the columns, slice, fit the wrapped transformer
Fit ==
    /\ pc = "constructed"
    /\ LET r == _set_columns_to_transform(self, df)
       IN  /\ transform_column_' = IF r.assigned THEN r.value ELSE transform_column_
           /\ IF r.error # ""
              THEN /\ pc' = "fit_failed"
                   /\ call' = [op |-> "fit", X |-> df, answer |-> NoAnswer,
                               out |-> Failed(r.error, <<>>, <<>>)]
              ELSE /\ pc' = "fitted"
                   /\ call' = [op |-> "fit", X |-> df, answer |-> NoAnswer,
                               out |-> Returned(loc(df, r.value), <<>>, <<>>, <<>>)]
    /\ UNCHANGED <<df, self, n_steps, codecVars, prepareVars>>

\* transform(X) on a fitted wrapper
Transform ==
    /\ pc = "fitted"
    /\ \E X \in TransformTables(df) :
       \E out \in Outputs(self, Len(loc(X, transform_column_))) :
          LET r == transform(self, transform_column_, X, out)
          IN  /\ call' = [op |-> "transform", X |-> X, answer |-> out, out |-> r]
              /\ pc' = IF r.error = "" THEN "transformed" ELSE "transform_failed"
    /\ UNCHANGED <<df, self, transform_column_, n_steps,
                   codecVars, prepareVars>>

Next == Fit \/ Transform

Spec == Init /\ [][Next]_vars

----------------------------------------------------------------------------
(* A pipeline of wrappers: each step is a new wrapper, fitted on the table   *)
(* the pipeline holds and asked to transform it (fit_transform); its output  *)
(* is the table of the next step.                                            *)

NoWrapper == [transformer |-> [name |-> "", get_support |-> FALSE],
              transform_column |-> [type |-> "list", value |-> <<>>],
              returned_features |-> ""]

\* the tables a pipeline starts from: the initial tables of full width
PipelineTables == {t \in InitialTables : Len(t) = MaxCols}

\* the wrappers of a pipeline step: a keyword, a column name, or a list of
\* one of them as selector
PipelineWrappers ==
    {w \in Wrappers : IsList(w.transform_column) => Len(w.transform_column.value) = 1}

InitPipeline ==
    /\ df \in PipelineTables
    /\ self = NoWrapper
    /\ transform_column_ = <<>>
    /\ pc = "pipeline"
    /\ call = NoCall
    /\ n_steps = 0
    /\ Idle

\* fit(X).transform(X) of a new wrapper on the pipeline's table
FitTransform ==
    /\ pc = "pipeline"
    /\ n_steps < MaxSteps
    /\ \E w \in PipelineWrappers :
          LET f == _set_columns_to_transform(w, df)
          IN  /\ self' = w
              /\ transform_column_' = f.value
              /\ IF f.error # ""
                 THEN /\ pc' = "pipeline_failed"
                      /\ UNCHANGED <<df, n_steps>>
                 ELSE \E out \in Outputs(w, Len(loc(df, f.value))) :
                         LET r == transform(w, f.value, df, out)
                         IN  IF r.error # ""
                             THEN /\ pc' = "pipeline_failed"
                                  /\ UNCHANGED <<df, n_steps>>
                             ELSE /\ pc' = "pipeline"
                                  /\ df' = r.df_out
                                  /\ n_steps' = n_steps + 1
    /\ UNCHANGED <<call, codecVars, prepareVars>>

NextPipeline == FitTransform

SpecPipeline == InitPipeline /\ [][NextPipeline]_vars

----------------------------------------------------------------------------
(* The codec alone: _get_column_type on any column name *)

\* the pieces a column name is made of: words, the separator, and the parts
\* of the separator on their own
Pieces == {Str("a"), Str("confound"), Str("continuous"), column_type_sep,
           Str("__"), Str(":type:")}

RECURSIVE Join(_)
Join(pieces) == IF pieces = <<>> THEN <<>> ELSE Head(pieces) \o Join(Tail(pieces))

ColumnNames == {Join(ps) : ps \in SeqsUpTo(Pieces, MaxLen)}

InitCodec ==
    /\ column \in ColumnNames
    /\ decoded = <<>>
    /\ pc = "codec"
    /\ df = <<>> /\ self = NoWrapper /\ transform_column_ = <<>>
    /\ call = NoCall /\ n_steps = 0
    /\ args = <<>> /\ ret = <<>>

Decode ==
    /\ pc = "codec"
    /\ decoded' = _get_column_type(column)
    /\ pc' = "decoded"
    /\ UNCHANGED <<df, self, transform_column_, call, n_steps, column, prepareVars>>

NextCodec == Decode

SpecCodec == InitCodec /\ [][NextCodec]_vars

----------------------------------------------------------------------------
(* prepare.py: input validation and preparation without a dataframe *)

\* a numpy array is its shape; anything else that is not None is a list
Array(shape) == [kind |-> "ndarray", shape |-> shape]
None == [kind |-> "None", shape |-> <<>>]
NotArray == [kind |-> "list", shape |-> <<>>]

ndim(a) == Len(a.shape)

\* the numbers of samples the inputs come with
SampleCounts == {2, 10}

\* arrays of rank 0 to 3 for X and confounds, of rank 0 to 2 for y and groups
Matrices ==
    {Array(<<>>)} \cup {Array(<<n>>) : n \in SampleCounts}
    \cup {Array(<<n, f>>) : n \in SampleCounts, f \in 1..MaxFeatures}
    \cup {Array(<<n, f, 1>>) : n \in SampleCounts, f \in 1..MaxFeatures}

Vectors ==
    {Array(<<>>)} \cup {Array(<<n>>) : n \in SampleCounts}
    \cup {Array(<<n, 1>>) : n \in SampleCounts}

PrepareArgs ==
    [X : Matrices \cup {NotArray},
     y : Vectors \cup {NotArray},
     confounds : Matrices \cup {NotArray, None},
     groups : Vectors \cup {NotArray, None},
     pos_labels : BOOLEAN]

\* _validate_input_data with df None: the error it raises, "" when it returns
_validate_input_data(X, y, confounds, groups) ==
    IF X.kind # "ndarray" THEN "InvalidInputType"
    ELSE IF ndim(X) \notin {1, 2} THEN "InvalidInputShape"
    ELSE IF y.kind # "ndarray" THEN "InvalidInputType"
    ELSE IF ndim(y) # 1 THEN "InvalidInputShape"
    ELSE IF X.shape[1] # y.shape[1] THEN "InvalidInputShape"
    ELSE IF confounds # None /\ confounds.kind # "ndarray" THEN "InvalidInputType"
    ELSE IF confounds # None /\ ndim(confounds) \notin {1, 2} THEN "InvalidInputShape"
    ELSE IF confounds # None /\ X.shape[1] # confounds.shape[1] THEN "InvalidInputShape"
    ELSE IF groups # None /\ groups.kind # "ndarray" THEN "InvalidInputType"
    ELSE IF groups # None /\ ndim(groups) # 1 THEN "InvalidInputShape"
    ELSE ""

\* a[:, None] for a one-dimensional array
AsMatrix(a) == IF ndim(a) = 1 THEN Array(<<a.shape[1], 1>>) ELSE a

\* a mutant: the columns are numbered from 1
numbered_from_one(prefix, n) == [i \in 1..n |-> <<prefix, ToString(i)>>]

\* [f'{prefix}{i}' for i in range(n)]
numbered(prefix, n) == [i \in 1..n |-> <<prefix, ToString(i - 1)>>]

NoReturn(error) ==
    [error |-> error, df_X_conf |-> <<>>, n_rows |-> 0, df_y |-> None,
     df_groups |-> None, confound_names |-> <<>>]

\* prepare_input_data with df None: the typed table (its columns and its
\* number of rows), the target and group series (their lengths) and the
\* confound names (<<>> for None)
prepare_input_data(a) ==
    LET error == _validate_input_data(a.X, a.y, a.confounds, a.groups)
        X == AsMatrix(a.X)
        columns == numbered("feature_", X.shape[2])
        confound_names ==
            IF a.confounds = None THEN <<>>
            ELSE numbered("confound_", AsMatrix(a.confounds).shape[2])
        \* with pos_labels the target becomes y.isin(pos_labels).astype(int)
        df_y == [kind |-> IF a.pos_labels THEN "Series of 0/1" ELSE "Series",
                 shape |-> <<a.y.shape[1]>>]
        df_groups == IF a.groups = None THEN None
                     ELSE [kind |-> "Series", shape |-> <<a.groups.shape[1]>>]
    IN  IF error # "" THEN NoReturn(error)
        ELSE [error |-> "",
              df_X_conf |-> [i \in 1..Len(columns \o confound_names) |->
                               [name |-> (columns \o confound_names)[i],
                                data |-> IF i <= Len(columns) THEN "X" ELSE "confounds"]],
              n_rows |-> X.shape[1],
              df_y |-> df_y,
              df_groups |-> df_groups,
              confound_names |-> confound_names]

InitPrepare ==
    /\ args \in PrepareArgs
    /\ ret = NoReturn("")
    /\ pc = "prepare"
    /\ df = <<>> /\ self = NoWrapper /\ transform_column_ = <<>>
    /\ call = NoCall /\ n_steps = 0
    /\ column = <<>> /\ decoded = <<>>

PrepareInputData ==
    /\ pc = "prepare"
    /\ ret' = prepare_input_data(args)
    /\ pc' = "prepared"
    /\ UNCHANGED <<df, self, transform_column_, call, n_steps, codecVars, args>>

NextPrepare == PrepareInputData

SpecPrepare == InitPrepare /\ [][NextPrepare]_vars

----------------------------------------------------------------------------
(* Claims about the wrapper (specification Spec) *)

TransformCall == call.op = "transform"
FitCall == call.op = "fit"

\* the table in hand has every column resolved at fit
HasFittedColumns(X) == Range(transform_column_) \subseteq Range(Columns(X))

Tags(names) == {_get_column_type(names[i]) : i \in 1..Len(names)}

\* C1: after fit on df, a transform on a table that has all the columns
\* resolved at fit hands the wrapped transformer exactly those columns, in the
\* fitted order, whatever else the table holds; the fitted list is the one
\* resolved against df; and when transform returns, every column of the table
\* that the fit-time table did not have is in the output under its own name.
C1_TransformUsesFittedColumns ==
    (TransformCall /\ HasFittedColumns(call.X)) =>
        /\ transform_column_ = _set_columns_to_transform(self, df).value
        /\ Columns(call.out.X_transform) = transform_column_
        /\ call.out.error = "" =>
              \A c \in Range(call.X) \ Range(df) :
                  \E i \in 1..Len(call.out.df_out) : call.out.df_out[i] = c

\* C1 witness: a transform returned on a table with extra columns which the
\* selector, resolved against that table, would have picked as well
C1_Witness ==
    /\ TransformCall /\ call.out.error = ""
    /\ call.X # df /\ Len(call.X) > Len(df)
    /\ _set_columns_to_transform(self, call.X).error = ""
    /\ _set_columns_to_transform(self, call.X).value # transform_column_
    /\ Columns(call.out.X_transform) = transform_column_

\* C2: under unknown_same_type, whenever transform returns and the selected
\* input columns share one tag, every generated column decodes to that tag.
C2_GeneratedColumnsInheritTag ==
    (/\ TransformCall /\ call.out.error = ""
     /\ self.returned_features = "unknown_same_type"
     /\ Cardinality(Tags(Columns(call.out.X_transform))) = 1) =>
        \A i \in 1..Len(call.out.X_transformed) :
            {_get_column_type(call.out.X_transformed[i].name)}
                = Tags(Columns(call.out.X_transform))

\* the selector is `all`, `all_features` or a list of more than one entry
AggregateSelector(sel) ==
    \/ sel.type = "str" /\ sel.value \in {Str("all"), Str("all_features")}
    \/ sel.type = "list" /\ Len(sel.value) > 1

\* C3: under unknown_same_type, a transform on a table that has the fitted
\* columns fails with HeterogeneousTypePolicy whenever the selector is an
\* aggregate one or the fitted columns carry two or more distinct tags; it
\* returns a table only when the fitted columns share a single tag.
C3_ReturnsOnlyForSingleTag ==
    (/\ TransformCall /\ HasFittedColumns(call.X)
     /\ self.returned_features = "unknown_same_type"
     /\ \/ AggregateSelector(self.transform_column)
        \/ Cardinality(Tags(transform_column_)) > 1) =>
        /\ call.out.error = "HeterogeneousTypePolicy"
        /\ call.out.df_out = <<>>

\* C4: under policy same, whenever transform returns, the output has the
\* input's column names in the input's order, and every column that was not
\* selected is the input's column, values included.
C4_SameKeepsNamesAndOrder ==
    (TransformCall /\ call.out.error = "" /\ self.returned_features = "same") =>
        /\ Columns(call.out.df_out) = Columns(call.X)
        /\ \A i \in 1..Len(call.X) :
              call.X[i].name \notin Range(transform_column_)
                  => call.out.df_out[i] = call.X[i]
        /\ \A i \in 1..Len(call.X) :
              call.X[i].name \in Range(transform_column_)
                  => call.out.df_out[i].data = "transformed"

\* C4 witness: policy same returned on a table whose selected columns are
\* neither all of it nor in table order
C4_Witness ==
    /\ TransformCall /\ call.out.error = "" /\ self.returned_features = "same"
    /\ call.out.X_rest # <<>>
    /\ Len(transform_column_) > 1
    /\ Columns(call.out.X_transformed \o call.out.X_rest) # Columns(call.X)

\* the columns of X that were not selected, as they are in X
Unselected(X) == SelectSeq(X, LAMBDA c : c.name \notin Range(transform_column_))

\* C5: under policy subset, with a transformer that has get_support, whenever
\* transform returns, the transformed part of the output carries exactly the
\* names of the slice at the positions the mask selects, in slice order,
\* followed by all unselected columns of the input unchanged; with a
\* transformer that has no get_support, transform fails with UnsupportedPolicy
\* and returns no table.
C5_SubsetFollowsSupportMask ==
    (/\ TransformCall /\ HasFittedColumns(call.X)
     /\ self.returned_features = "subset") =>
        IF self.transformer.get_support
        THEN call.out.error = "" =>
                LET mask == call.answer.support
                    names == Columns(call.out.X_transform)
                    kept == {i \in 1..Len(names) : mask[i]}
                    part == SubSeq(call.out.df_out, 1, Cardinality(kept))
                IN  /\ Len(call.out.df_out) = Cardinality(kept) + Len(Unselected(call.X))
                    /\ \A j \in 1..Cardinality(kept) :
                          \E i \in kept :
                             /\ Cardinality({k \in kept : k <= i}) = j
                             /\ part[j].name = names[i]
                    /\ SubSeq(call.out.df_out, Cardinality(kept) + 1,
                              Len(call.out.df_out)) = Unselected(call.X)
        ELSE /\ call.out.error = "UnsupportedPolicy"
             /\ call.out.df_out = <<>>

\* C5 witness: subset returned with a mask that drops a column that is not
\* the last of the slice, on a table with unselected columns
C5_Witness ==
    /\ TransformCall /\ call.out.error = "" /\ self.returned_features = "subset"
    /\ self.transformer.get_support
    /\ Len(call.out.X_transform) > 1
    /\ ~call.answer.support[1] /\ call.answer.support[2]
    /\ call.out.X_rest # <<>>

\* column c is what keyword kw asks for
Matches(c, kw) ==
    \/ kw = Str("all")
    \/ kw = Str("all_features") /\ _get_column_type(c) # Str("confound")
    \/ kw \notin {Str("all"), Str("all_features")} /\ _get_column_type(c) = kw

SelectorEntriesOf(sel) == IF sel.type = "list" THEN Range(sel.value) ELSE {sel.value}

\* C7: with a selector made of keywords only, fit resolves exactly the columns
\* of the table that match one of the keywords, each listed once, and fails
\* with EmptySelection when none matches; with any other selector, fit fails
\* with KeyError (column not found) when an entry is no column of the table.
C7_FitResolvesMatchingColumnsOnce ==
    FitCall =>
        LET entries == SelectorEntriesOf(self.transform_column)
            matching == {c \in Range(Columns(df)) : \E kw \in entries : Matches(c, kw)}
        IN  IF entries \subseteq column_types
            THEN IF matching = {}
                 THEN call.out.error = "EmptySelection"
                 ELSE /\ call.out.error = ""
                      /\ Range(transform_column_) = matching
                      /\ ~HasDuplicates(transform_column_)
            ELSE ~(entries \subseteq Range(Columns(df)))
                     => call.out.error = "KeyError"

----------------------------------------------------------------------------
(* Claims about a pipeline of wrappers (specification SpecPipeline) *)

\* C6: along a pipeline that starts from a table with pairwise distinct
\* column names, the table has pairwise distinct column names after every
\* step.
C6_ColumnNamesStayDistinct == ~HasDuplicates(Columns(df))

----------------------------------------------------------------------------
(* Claims about the codec (specification SpecCodec) *)

\* the positions at which the separator occurs in s, overlapping ones included
Occurrences(s) ==
    {j \in 1..(Len(s) - Len(column_type_sep) + 1) :
        SubSeq(s, j, j + Len(column_type_sep) - 1) = column_type_sep}

Least(S) == CHOOSE j \in S : \A k \in S : j <= k
Greatest(S) == CHOOSE j \in S : \A k \in S : j >= k

\* the text of s after the occurrence of the separator at position j
After(s, j) == SubSeq(s, j + Len(column_type_sep), Len(s))

\* C8 as stated: the decoded tag is the text after the last occurrence of the
\* separator, and continuous when the separator is absent.
C8_DecodesAfterLastSeparator ==
    pc = "decoded" =>
        decoded = IF Occurrences(column) = {} THEN Str("continuous")
                  ELSE After(column, Greatest(Occurrences(column)))

\* C8 amended: the decoded tag is continuous when the separator is absent;
\* it is the text after the first occurrence of the separator when that text
\* holds no further occurrence, and continuous when it does; so a name with a
\* single occurrence decodes to the text after it (round trip of
\* base + separator + tag), and a name that splits in more than two parts
\* decodes to continuous.
C8_DecodesSingleSeparator ==
    pc = "decoded" =>
        LET occ == Occurrences(column)
        IN  /\ occ = {} => decoded = Str("continuous")
            /\ occ # {} =>
                  decoded = IF Occurrences(After(column, Least(occ))) = {}
                            THEN After(column, Least(occ))
                            ELSE Str("continuous")
            /\ Cardinality(occ) = 1 => decoded = After(column, Least(occ))

\* C8 witness: a name with the separator twice, a recognized tag after the
\* last one, decoded to continuous
C8_Witness ==
    /\ pc = "decoded"
    /\ Cardinality(Occurrences(column)) = 2
    /\ After(column, Greatest(Occurrences(column))) = Str("confound")
    /\ decoded = Str("continuous")

----------------------------------------------------------------------------
(* Claims about prepare_input_data (specification SpecPrepare) *)

Prepared == pc = "prepared" /\ ret.error = ""

FeatureColumns == SelectSeq(Columns(ret.df_X_conf), LAMBDA c : c[1] = "feature_")
ConfoundColumns == SelectSeq(Columns(ret.df_X_conf), LAMBDA c : c[1] = "confound_")

\* the names the table must have for n features and m confounds
ExpectedNames(n, m) ==
    [i \in 1..(n + m) |-> IF i <= n THEN <<"feature_", ToString(i - 1)>>
                          ELSE <<"confound_", ToString(i - n - 1)>>]

Width(a) == IF a = None THEN 0 ELSE IF ndim(a) = 1 THEN 1 ELSE a.shape[2]

\* C9 as stated: the table has the columns feature_0.. then confound_0.., the
\* features decode to continuous and the confounds to confound, so that the
\* confound selector picks exactly the confounds and all_features leaves them
\* out; the target has one entry per sample.
C9_ConfoundColumnsAreTagged ==
    Prepared =>
        /\ Columns(ret.df_X_conf) = ExpectedNames(Width(args.X), Width(args.confounds))
        /\ \A c \in Range(FeatureColumns) : _get_column_type(c) = Str("continuous")
        /\ \A c \in Range(ConfoundColumns) : _get_column_type(c) = Str("confound")
        /\ _get_columns_of_type(Columns(ret.df_X_conf), Str("confound")) = ConfoundColumns
        /\ _get_columns_of_type(Columns(ret.df_X_conf), Str("all_features")) = FeatureColumns
        /\ ret.df_y.shape = <<ret.n_rows>>

\* C9 amended: the table has the columns feature_0.. then confound_0.., the
\* confound names are returned beside the table; no column carries a tag, so
\* every column, confounds included, decodes to continuous, the confound
\* selector picks none of them and all_features picks all; the target has one
\* entry per sample.
C9_ColumnsAreNamedByPosition ==
    Prepared =>
        /\ Columns(ret.df_X_conf) = ExpectedNames(Width(args.X), Width(args.confounds))
        /\ ret.confound_names = ConfoundColumns
        /\ Len(ConfoundColumns) = Width(args.confounds)
        /\ \A c \in Range(Columns(ret.df_X_conf)) : _get_column_type(c) = Str("continuous")
        /\ _get_columns_of_type(Columns(ret.df_X_conf), Str("confound")) = <<>>
        /\ _get_columns_of_type(Columns(ret.df_X_conf), Str("all_features"))
              = Columns(ret.df_X_conf)
        /\ ret.n_rows = args.X.shape[1]
        /\ ret.df_y.shape = <<ret.n_rows>>
        /\ (args.X.shape = <<10, 3>> /\ args.confounds = None) =>
              /\ Columns(ret.df_X_conf) = <<<<"feature_", "0">>, <<"feature_", "1">>,
                                            <<"feature_", "2">>>>
              /\ ret.df_y.shape = <<10>>

\* C9 witness: X of shape (10, 3) with two confounds, prepared
C9_Witness ==
    /\ Prepared
    /\ args.X.shape = <<10, 3>>
    /\ args.confounds # None /\ Width(args.confounds) = 2
    /\ Len(ret.df_X_conf) = 5

SampleCount(a) == IF a.shape = <<>> THEN 0 ELSE a.shape[1]

\* C10: prepare fails whenever y, confounds (if given) or groups (if given)
\* has another number of samples than X, or y or groups is not of rank 1, or
\* X or confounds has a rank above 2.
C10_RejectsMismatchedSamples ==
    (/\ pc = "prepared"
     /\ \/ SampleCount(args.y) # SampleCount(args.X)
        \/ args.confounds # None /\ SampleCount(args.confounds) # SampleCount(args.X)
        \/ args.groups # None /\ SampleCount(args.groups) # SampleCount(args.X)
        \/ ndim(args.y) # 1
        \/ args.groups # None /\ ndim(args.groups) # 1
        \/ ndim(args.X) > 2
        \/ args.confounds # None /\ ndim(args.confounds) > 2)
        => ret.error # ""

----------------------------------------------------------------------------
(* prepare.py: the hyperparameter rewriter (_prepare_hyperparams)            *)

\* entries of a hyperparameter mapping
MaxParams == 2

\* the state of the wrapper, codec and pipeline variables while another
\* operation of prepare.py runs
WrapperIdle ==
    /\ df = <<>> /\ self = NoWrapper /\ transform_column_ = <<>>
    /\ call = NoCall /\ n_steps = 0
    /\ column = <<>> /\ decoded = <<>>

\* the separator of the segments of a hyperparameter name
param_sep == Str("__")

\* '__'.join(parts)
RECURSIVE join(_, _)
join(sep, parts) ==
    IF parts = <<>> THEN <<>>
    ELSE IF Len(parts) = 1 THEN parts[1]
    ELSE parts[1] \o sep \o join(sep, Tail(parts))

\* rename_param(param): the nested name, or the error raise_error raises
rename_param(param, model_name) ==
    LET parts == split(param, param_sep)
        first == Head(parts)
        rest == Tail(parts)
        renamed(new_first) == [error |-> "", name |-> join(param_sep, <<new_first>> \o rest)]
    IN  IF first = Str("features") THEN renamed(Str("dataframe_pipeline"))
        ELSE IF first = Str("confounds") THEN renamed(Str("confound_dataframe_pipeline"))
        ELSE IF first = Str("target") THEN renamed(Str("y_transformer"))
        ELSE IF first = model_name
        THEN renamed(Str("dataframe_pipeline") \o param_sep \o first)
        ELSE [error |-> "HyperparameterScopeError", name |-> <<>>]

\* d[name] = val on a dict held as a set of items
Assign(d, name, val) ==
    {e \in d : e.name # name} \cup {[name |-> name, val |-> val]}

\* pipeline.set_params(**{name: val}): the parameter is set on the pipeline
set_params(pipeline, name, val) ==
    [pipeline EXCEPT !.params = Assign(pipeline.params, name, val)]

\* hasattr(val, '__iter__') and not isinstance(val, str)
IsIterable(val) == val.kind = "list"

\* the loop of _prepare_hyperparams over hyperparams.items(), in the order of
\* the mapping: the grid, the pipeline as the calls left it, and the error
\* that ended the loop. pipeline.set_param(val) is handed the value alone;
\* what the method does is the pipeline's: it is missing (or wants a name) and
\* the call raises, or it takes the value and returns
RECURSIVE _prepare_hyperparams_loop(_, _, _, _)
_prepare_hyperparams_loop(items, pipeline, model_name, to_tune) ==
    IF items = <<>>
    THEN [error |-> "", to_tune |-> to_tune, pipeline |-> pipeline]
    ELSE
    LET param == Head(items).param
        val == Head(items).val
        renamed == rename_param(param, model_name)
        raised(error) == [error |-> error, to_tune |-> {}, pipeline |-> pipeline]
    IN  IF IsIterable(val)
        THEN IF Len(val.items) > 1
             THEN IF renamed.error # "" THEN raised(renamed.error)
                  ELSE _prepare_hyperparams_loop(Tail(items), pipeline, model_name,
                           Assign(to_tune, renamed.name, val))
             ELSE IF pipeline.set_param = "raises" THEN raised("AttributeError")
                  ELSE _prepare_hyperparams_loop(Tail(items), pipeline, model_name,
                           to_tune)
        ELSE IF renamed.error # "" THEN raised(renamed.error)
             ELSE _prepare_hyperparams_loop(Tail(items),
                      set_params(pipeline, renamed.name, val), model_name, to_tune)

_prepare_hyperparams(hyperparams, pipeline, model_name) ==
    _prepare_hyperparams_loop(hyperparams, pipeline, model_name, {})

\* inputs
ParamScopes == {Str("features"), Str("confounds"), Str("target"),
                Str("svm"), Str("model")}
ParamPaths == {Str("C"), Str("impute") \o param_sep \o Str("n_neighbors")}
ParamNames == {scope \o param_sep \o path : scope \in ParamScopes, path \in ParamPaths}
ParamValues == {[kind |-> "scalar", items |-> <<"5">>],
                [kind |-> "str", items |-> <<"rbf">>],
                [kind |-> "list", items |-> <<"1">>],
                [kind |-> "list", items |-> <<"0.1", "1", "10">>]}
ParamItems == {[param |-> n, val |-> v] : n \in ParamNames, v \in ParamValues}

\* a mapping has each name once; its items come in the order of insertion
Hyperparams ==
    {h \in SeqsUpTo(ParamItems, MaxParams) :
        \A i, j \in 1..Len(h) : i # j => h[i].param # h[j].param}

Pipelines == {[params |-> {}, set_param |-> m] : m \in {"raises", "returns"}}

NoRewrite == [error |-> "", to_tune |-> {}, pipeline |-> [params |-> {}, set_param |-> ""]]

InitHyperparams ==
    /\ args \in {[hyperparams |-> h, pipeline |-> p, model_name |-> Str("svm")] :
                    h \in Hyperparams, p \in Pipelines}
    /\ ret = NoRewrite
    /\ pc = "hyperparams"
    /\ WrapperIdle

PrepareHyperparams ==
    /\ pc = "hyperparams"
    /\ ret' = _prepare_hyperparams(args.hyperparams, args.pipeline, args.model_name)
    /\ pc' = "rewritten"
    /\ UNCHANGED <<df, self, transform_column_, call, n_steps, codecVars, args>>

NextHyperparams == PrepareHyperparams

SpecHyperparams == InitHyperparams /\ [][NextHyperparams]_vars

----------------------------------------------------------------------------
(* Claims about the hyperparameter rewriter (specification SpecHyperparams) *)

Rewritten == pc = "rewritten"

\* the first segment of a name is one of the four scopes
ValidScope(param, model_name) ==
    Head(split(param, param_sep)) \in
        {Str("features"), Str("confounds"), Str("target"), model_name}

\* the nested name the claim gives a flat name of valid scope
NestedName(param, model_name) ==
    LET parts == split(param, param_sep)
        branch == IF Head(parts) = Str("features") THEN Str("dataframe_pipeline")
                  ELSE IF Head(parts) = Str("confounds")
                  THEN Str("confound_dataframe_pipeline")
                  ELSE IF Head(parts) = Str("target") THEN Str("y_transformer")
                  ELSE Str("dataframe_pipeline") \o param_sep \o model_name
    IN  join(param_sep, <<branch>> \o Tail(parts))

Names(d) == {e.name : e \in d}

\* C11: a mapping with an entry whose first segment is not features,
\* confounds, target or the model name is rejected with
\* HyperparameterScopeError, whatever the shape of the entry's value.
C11_InvalidScopeIsRejected ==
    (/\ Rewritten
     /\ \E i \in 1..Len(args.hyperparams) :
            ~ValidScope(args.hyperparams[i].param, args.model_name))
    => ret.error = "HyperparameterScopeError"

\* C12: when the rewrite returns, every entry of valid scope is, under its
\* nested name, in the grid iff its value is a non-string iterable of more
\* than one element, and otherwise a parameter set on the pipeline and not in
\* the grid.
C12_ClassifiedByArity ==
    (Rewritten /\ ret.error = "")
    => \A i \in 1..Len(args.hyperparams) :
          LET e == args.hyperparams[i]
              name == NestedName(e.param, args.model_name)
              tunable == e.val.kind = "list" /\ Len(e.val.items) > 1
          IN  ValidScope(e.param, args.model_name)
              => IF tunable
                 THEN /\ [name |-> name, val |-> e.val] \in ret.to_tune
                      /\ name \notin Names(ret.pipeline.params)
                 ELSE /\ name \in Names(ret.pipeline.params)
                      /\ name \notin Names(ret.to_tune)

\* C16: a rewrite that fails leaves the parameters of the pipeline as they
\* were before the call.
C16_FailedRewriteLeavesPipeline ==
    (Rewritten /\ ret.error # "")
    => ret.pipeline.params = args.pipeline.params

----------------------------------------------------------------------------
(* prepare.py: the cross-validation parser (prepare_cv)                      *)

\* '_'-separated fields of a cv string
MaxFields == 2

\* the characters int() reads as decimal digits, with their values
DigitValue == [c \in {"3", "5"} |-> IF c = "3" THEN 3 ELSE 5]

\* int(s): the number a string of digits denotes; anything else raises
\* ValueError
IsInt(s) == s # <<>> /\ \A i \in 1..Len(s) : s[i] \in DOMAIN DigitValue

RECURSIVE int(_)
int(s) ==
    IF s = <<>> THEN 0
    ELSE 10 * int(SubSeq(s, 1, Len(s) - 1)) + DigitValue[s[Len(s)]]

\* name.split(':')[-1]
LastPart(name) == LET parts == split(name, Str(":")) IN parts[Len(parts)]

RepeatedKFold(n_splits, n_repeats) ==
    [error |-> "", kind |-> "RepeatedKFold", n_splits |-> n_splits, n_repeats |-> n_repeats]

NoSplitter(error) == [error |-> error, kind |-> "", n_splits |-> 0, n_repeats |-> 0]

\* parser(cv_string): two '_'-separated fields, each read as the integer
\* after its last ':'; the unpacking and int() raise ValueError
parser(cv_string) ==
    LET fields == split(cv_string, Str("_"))
    IN  IF Len(fields) # 2 THEN NoSplitter("ValueError")
        ELSE IF ~IsInt(LastPart(fields[1])) \/ ~IsInt(LastPart(fields[2]))
        THEN NoSplitter("ValueError")
        ELSE RepeatedKFold(int(LastPart(fields[2])), int(LastPart(fields[1])))

\* sklearn's check_cv: an int gives a k-fold splitter, a splitter is passed
\* through, a string raises ValueError
check_cv(cv) ==
    IF cv.kind = "int" THEN [error |-> "", kind |-> "KFold", n_splits |-> cv.n, n_repeats |-> 1]
    ELSE IF cv.kind = "splitter" THEN [error |-> "", kind |-> cv.name, n_splits |-> cv.n, n_repeats |-> 1]
    ELSE NoSplitter("ValueError")

prepare_cv(cv) ==
    LET _cv == check_cv(cv)
    IN  IF _cv.error = "ValueError" THEN parser(cv.text) ELSE _cv

\* inputs: a field is a name, a colon and a value, each possibly missing
FieldNames == {<<>>, Str("repeat"), Str("nfolds"), Str("folds")}
FieldColons == {<<>>, Str(":")}
FieldValues == {<<>>, Str("3"), Str("5"), Str("nope")}
Fields == {n \o c \o v : n \in FieldNames, c \in FieldColons, v \in FieldValues}

CvStrings == {join(Str("_"), fs) : fs \in SeqsUpTo(Fields, MaxFields) \ {<<>>}}

CvSpecs ==
    {[kind |-> "str", text |-> t, name |-> "", n |-> 0] : t \in CvStrings} \cup
    {[kind |-> "int", text |-> <<>>, name |-> "", n |-> n] : n \in {3, 5}} \cup
    {[kind |-> "splitter", text |-> <<>>, name |-> "GroupKFold", n |-> 5]}

InitCV ==
    /\ args \in CvSpecs
    /\ ret = NoSplitter("")
    /\ pc = "cv"
    /\ WrapperIdle

PrepareCV ==
    /\ pc = "cv"
    /\ ret' = prepare_cv(args)
    /\ pc' = "parsed"
    /\ UNCHANGED <<df, self, transform_column_, call, n_steps, codecVars, args>>

NextCV == PrepareCV

SpecCV == InitCV /\ [][NextCV]_vars

----------------------------------------------------------------------------
(* Claims about the cross-validation parser (specification SpecCV) *)

\* the string repeat:a_nfolds:b
CvString(a, b) ==
    Str("repeat") \o Str(":") \o a \o Str("_") \o Str("nfolds") \o Str(":") \o b

Numerals == {v \in FieldValues : IsInt(v)}

\* C13: a string is parsed into a repeated k-fold splitter with n_repeats = a
\* and n_splits = b iff it is repeat:a_nfolds:b for integers a and b; every
\* other string is rejected.
C13_OnlyExactGrammarParses ==
    (pc = "parsed" /\ args.kind = "str")
    => IF \E a, b \in Numerals : args.text = CvString(a, b)
       THEN \E a, b \in Numerals :
               /\ args.text = CvString(a, b)
               /\ ret = RepeatedKFold(int(b), int(a))
       ELSE ret.error # ""


----------------------------------------------------------------------------
(* prepare.py: the confound steps of the preprocessing builder               *)
(* (_prepare_preprocess_confounds)                                           *)

\* steps of a confound preprocessing list
MaxConfSteps == 2

\* get_transformer(name): the transformer registered under a name and its
\* returned_features policy; an unknown name is an error
available_transformers ==
    [name \in {"zscore", "pca", "select_univariate", "remove_confound"} |->
        CASE name = "zscore" -> "same"
          [] name = "pca" -> "unknown"
          [] name = "select_univariate" -> "subset"
          [] name = "remove_confound" -> "from_transformer"]

get_transformer(name) ==
    IF name \in DOMAIN available_transformers
    THEN [error |-> "", trans |-> name, returned_features |-> available_transformers[name]]
    ELSE [error |-> "ValueError", trans |-> "", returned_features |-> ""]

\* hasattr fit, transform, get_params, set_params
_is_valid_sklearn_transformer(transformer) == transformer.kind = "transformer"

_get_confound_transformer(conf) ==
    IF conf.kind = "str" THEN get_transformer(conf.name)
    ELSE IF ~_is_valid_sklearn_transformer(conf)
    THEN [error |-> "InvalidConfoundPreprocessing", trans |-> "", returned_features |-> ""]
    ELSE [error |-> "", trans |-> conf.name, returned_features |-> "unknown_same_type"]

\* the tuple (trans_name, trans, returned_features, transform_columns) of a
\* step; an already-built step (a list) is returned as it is
transform_columns_of(trans_name) ==
    IF trans_name = "remove_confound" THEN <<"continuous", "confound">>
    ELSE <<"continuous">>

_create_preprocess_tuple(transformer) ==
    IF transformer.kind = "list"
    THEN [error |-> "", kind |-> "list", trans_name |-> transformer.name,
          trans |-> transformer.name, returned_features |-> "same",
          transform_columns |-> <<"continuous">>]
    ELSE IF transformer.kind = "str"
    THEN LET t == get_transformer(transformer.name)
         IN  [error |-> t.error, kind |-> "tuple", trans_name |-> transformer.name,
              trans |-> t.trans, returned_features |-> t.returned_features,
              transform_columns |-> transform_columns_of(transformer.name)]
    ELSE [error |-> "", kind |-> "tuple", trans_name |-> transformer.name,
          trans |-> transformer.name, returned_features |-> "unknown",
          transform_columns |-> transform_columns_of(transformer.name)]

\* the loop over the steps: the policy the last step left in
\* returned_features, or the error of the first step that raised
RECURSIVE confound_policy(_, _)
confound_policy(steps, returned_features) ==
    IF steps = <<>> THEN [error |-> "", returned_features |-> returned_features]
    ELSE LET t == _get_confound_transformer(Head(steps))
         IN  IF t.error # "" THEN [error |-> t.error, returned_features |-> ""]
             ELSE confound_policy(Tail(steps),
                      IF t.returned_features = "unknown" THEN "unknown_same_type"
                      ELSE t.returned_features)

\* step[:2] + (returned_features,) + (step[-1],)
with_policy(step, returned_features) ==
    [trans_name |-> step.trans_name, trans |-> step.trans,
     returned_features |-> returned_features,
     transform_columns |-> step.transform_columns]

_prepare_preprocess_confounds(preprocess_conf) ==
    LET steps == IF preprocess_conf.kind = "steps" THEN preprocess_conf.steps
                 ELSE <<preprocess_conf>>
        policy == confound_policy(steps, "unknown_same_type")
        tuples == [i \in 1..Len(steps) |-> _create_preprocess_tuple(steps[i])]
    IN  IF policy.error # "" THEN [error |-> policy.error, steps |-> <<>>]
        ELSE IF \E i \in 1..Len(tuples) : tuples[i].error # ""
        THEN [error |-> "ValueError", steps |-> <<>>]
        ELSE IF \E i \in 1..Len(tuples) : tuples[i].kind = "list"
        THEN [error |-> "TypeError", steps |-> <<>>]
        ELSE [error |-> "",
              steps |-> [i \in 1..Len(tuples) |->
                            with_policy(tuples[i], policy.returned_features)]]

\* inputs: a step is a name, a transformer instance, an object that is no
\* transformer, or an already-built step
ConfoundSteps ==
    {[kind |-> "str", name |-> n] :
        n \in DOMAIN available_transformers \cup {"nope"}} \cup
    {[kind |-> "transformer", name |-> "standardscaler"],
     [kind |-> "object", name |-> "int"],
     [kind |-> "list", name |-> "zscore"]}

PreprocessConfounds ==
    {[kind |-> "steps", name |-> "", steps |-> l] :
        l \in SeqsUpTo(ConfoundSteps, MaxConfSteps)} \cup
    {[kind |-> c.kind, name |-> c.name, steps |-> <<>>] :
        c \in {c \in ConfoundSteps : c.kind # "list"}}

InitConfounds ==
    /\ args \in PreprocessConfounds
    /\ ret = [error |-> "", steps |-> <<>>]
    /\ pc = "confounds"
    /\ WrapperIdle

PreparePreprocessConfounds ==
    /\ pc = "confounds"
    /\ ret' = _prepare_preprocess_confounds(args)
    /\ pc' = "built"
    /\ UNCHANGED <<df, self, transform_column_, call, n_steps, codecVars, args>>

NextConfounds == PreparePreprocessConfounds

SpecConfounds == InitConfounds /\ [][NextConfounds]_vars

----------------------------------------------------------------------------
(* Claims about the confound steps (specification SpecConfounds) *)

StepsOf(c) == IF c.kind = "steps" THEN c.steps ELSE <<c>>

\* the policy a step resolves to on the confound branch
ResolvedPolicy(step) ==
    LET rf == IF step.kind = "str" THEN available_transformers[step.name]
              ELSE "unknown"
    IN  IF rf = "unknown" THEN "unknown_same_type" ELSE rf

\* C14: the steps the builder emits keep the order of the input, carry one
\* and the same returned-features policy, never unknown, and that policy is
\* the one each step resolves to.
C14_ConfoundStepsAgreeOnPolicy ==
    (pc = "built" /\ ret.error = "")
    => /\ Len(ret.steps) = Len(StepsOf(args))
       /\ \A i \in 1..Len(ret.steps) :
             /\ ret.steps[i].trans_name = StepsOf(args)[i].name
             /\ ret.steps[i].returned_features # "unknown"
             /\ ret.steps[i].returned_features = ret.steps[1].returned_features
             /\ ret.steps[i].returned_features = ResolvedPolicy(StepsOf(args)[i])

----------------------------------------------------------------------------
(* prepare.py: the consistency checker (check_consistency)                   *)

\* the splitters that take the groups into account
valid_instances == {"GroupKFold", "GroupShuffleSplit", "LeaveOneGroupOut",
                    "LeavePGroupsOut"}

\* a mutant: a target of the wrong kind is fatal whether or not a y
\* transformer is set
check_consistency_always_fatal(preprocess_y, y, cv, groups, problem_type) ==
    LET n_classes == y.n_unique
        groups_warning == IF groups # "None" /\ cv \notin valid_instances
                          THEN {"groups not considered by cv"} ELSE {}
        raised == [error |-> "InconsistentProblemType", warnings |-> {}]
        returned(warnings) == [error |-> "", warnings |-> warnings \cup groups_warning]
    IN  IF problem_type = "binary_classification"
        THEN IF n_classes # 2 THEN raised ELSE returned({})
        ELSE IF problem_type = "multiclass_classification"
        THEN IF n_classes = 2 THEN returned({"multiclass with 2 classes"})
             ELSE returned({})
        ELSE IF ~y.is_numeric THEN raised
             ELSE IF n_classes = 2 THEN returned({"regression with 2 values"})
             ELSE returned({})

\* check_consistency: the error it raises, or the warnings it gave before
\* it returned
check_consistency(preprocess_y, y, cv, groups, problem_type) ==
    LET n_classes == y.n_unique
        groups_warning == IF groups # "None" /\ cv \notin valid_instances
                          THEN {"groups not considered by cv"} ELSE {}
        raised == [error |-> "InconsistentProblemType", warnings |-> {}]
        returned(warnings) == [error |-> "", warnings |-> warnings \cup groups_warning]
    IN  IF problem_type = "binary_classification"
        THEN IF n_classes # 2
             THEN IF preprocess_y = "None" THEN raised
                  ELSE returned({"classes not suitable"})
             ELSE returned({})
        ELSE IF problem_type = "multiclass_classification"
        THEN IF n_classes = 2 THEN returned({"multiclass with 2 classes"})
             ELSE returned({})
        ELSE IF ~y.is_numeric
             THEN IF preprocess_y = "None" THEN raised
                  ELSE returned({"values not suitable"})
             ELSE IF n_classes = 2 THEN returned({"regression with 2 values"})
             ELSE returned({})

\* inputs
ProblemTypes == {"binary_classification", "multiclass_classification", "regression"}
Targets == {[n_unique |-> n, is_numeric |-> b] : n \in {1, 2, 3}, b \in BOOLEAN}
CvSchemes == valid_instances \cup {"KFold", "RepeatedKFold"}

ConsistencyArgs ==
    {[preprocess_y |-> t, y |-> y, cv |-> cv, groups |-> g, problem_type |-> p] :
        t \in {"None", "zscore"}, y \in Targets, cv \in CvSchemes,
        g \in {"None", "groups"}, p \in ProblemTypes}

InitConsistency ==
    /\ args \in ConsistencyArgs
    /\ ret = [error |-> "", warnings |-> {}]
    /\ pc = "consistency"
    /\ WrapperIdle

CheckConsistency ==
    /\ pc = "consistency"
    /\ ret' = check_consistency(args.preprocess_y, args.y, args.cv, args.groups,
                                args.problem_type)
    /\ pc' = "checked"
    /\ UNCHANGED <<df, self, transform_column_, call, n_steps, codecVars, args>>

NextConsistency == CheckConsistency

SpecConsistency == InitConsistency /\ [][NextConsistency]_vars

----------------------------------------------------------------------------
(* Claims about the consistency checker (specification SpecConsistency) *)

\* the target does not suit the problem type
UnsuitableTarget ==
    \/ args.problem_type = "binary_classification" /\ args.y.n_unique # 2
    \/ args.problem_type = "regression" /\ ~args.y.is_numeric

\* C15: the check fails with InconsistentProblemType iff no target transform
\* is set and the target does not suit the problem type (binary
\* classification without exactly 2 distinct values, regression on a
\* non-numeric target); with a target transform the same conditions give a
\* warning, and every other combination returns.
C15_FatalOnlyWithoutTargetTransform ==
    pc = "checked"
    => /\ ret.error = "InconsistentProblemType"
            <=> (args.preprocess_y = "None" /\ UnsuitableTarget)
       /\ ret.error \in {"", "InconsistentProblemType"}
       /\ (args.preprocess_y # "None" /\ UnsuitableTarget)
            => (ret.error = "" /\ ret.warnings # {})

C15_Witness ==
    /\ pc = "checked"
    /\ args.problem_type = "binary_classification"
    /\ args.y.n_unique = 3
    /\ args.preprocess_y = "None"
    /\ ret.error = "InconsistentProblemType"

====
